---- MODULE Spec2Model ----
(***************************************************************************)
(* The UN Comtrade download campaign of code/04_download_comtrade.py and   *)
(* code/05_download_comtrade.py: download_year (one request, retried on    *)
(* HTTP 429), download_dataset (the year loop with pacing and the          *)
(* near-limit break) and main (four datasets, the last one per partner).   *)
(* The two files have the same download_year and download_dataset; line    *)
(* numbers below are those of 04_download_comtrade.py.                     *)
(*                                                                         *)
(* One step of the model is one call of download_year together with the    *)
(* rest of the loop body, or one segment of main between two calls of      *)
(* download_dataset.  The server's answers are the input of a step.        *)
(***************************************************************************)
EXTENDS Integers, Sequences, FiniteSets, TLC

(* ---------------- bounds ---------------- *)

\* Number of years of the range 1992..2023 that the model runs through.
MaxYears == 2

\* Number of partners of the list of line 129 that the model runs through.
MaxPartners == 2

\* Number of requests of a campaign that the server does not answer with
\* HTTP 200 and a JSON body at once: it throttles them first (HTTP 429, once or
\* many times in a row), or fails them (a transport error, a body that is not
\* JSON, a status other than 200 and 429), or both.
MaxFaults == 2

(* ---------------- program constants ---------------- *)

max_calls == 500

\* the literal 50 of "call_counter >= max_calls - 50"
RESERVE == 50

START_YEAR == 1992

\* 2023 in the source; the model stops after MaxYears years
END_YEAR == START_YEAR + MaxYears - 1

COUNTRIES ==
  [name \in {"Colombia", "China", "World", "Chile", "Peru", "Brazil",
             "Argentina", "Ecuador"} |->
     CASE name = "Colombia"  -> "170"
       [] name = "China"     -> "156"
       [] name = "World"     -> "0"
       [] name = "Chile"     -> "152"
       [] name = "Peru"      -> "604"
       [] name = "Brazil"    -> "076"
       [] name = "Argentina" -> "032"
       [] name = "Ecuador"   -> "218"]

\* the list of the for loop of line 129, cut to MaxPartners partners
LAC_PARTNERS ==
  SubSeq(<<"Chile", "Peru", "Brazil", "Argentina", "Ecuador">>, 1, MaxPartners)

FILE_1 == "colombia_imports_from_china_HS6.csv"
FILE_2 == "colombia_imports_from_world_HS6.csv"
FILE_3 == "colombia_exports_to_world_HS6.csv"
FILE_LAC == "china_exports_to_lac_HS6.csv"

\* The calls of download_dataset that main makes, in program order: runs 1..3
\* are the single-partner datasets, run 3+i is partner i of the LAC loop.
NumRuns == 3 + Len(LAC_PARTNERS)

RunArgs(n) ==
  CASE n = 1 -> [reporter |-> COUNTRIES["Colombia"], partner |-> COUNTRIES["China"],
                 flow |-> "M", cmd_code |-> "AG6"]
    [] n = 2 -> [reporter |-> COUNTRIES["Colombia"], partner |-> COUNTRIES["World"],
                 flow |-> "M", cmd_code |-> "AG6"]
    [] n = 3 -> [reporter |-> COUNTRIES["Colombia"], partner |-> COUNTRIES["World"],
                 flow |-> "X", cmd_code |-> "AG6"]
    [] OTHER -> [reporter |-> COUNTRIES["China"],
                 partner |-> COUNTRIES[LAC_PARTNERS[n - 3]],
                 flow |-> "X", cmd_code |-> "AG6"]

\* the params dictionary of download_year
Params(args, yr) ==
  [reporterCode |-> args.reporter, period |-> ToString(yr),
   partnerCode |-> args.partner, flowCode |-> args.flow,
   cmdCode |-> args.cmd_code]

(* ---------------- data frames ---------------- *)

\* Python's None in the place of a DataFrame, and a DataFrame of rows.
NoneDf == [none |-> TRUE, rows |-> <<>>]

DataFrame(rows) == [none |-> FALSE, rows |-> rows]

\* pd.concat(frames, ignore_index=True): the rows of the frames, in order.
RECURSIVE concat(_)
concat(frames) ==
  IF frames = <<>> THEN <<>> ELSE Head(frames) \o concat(Tail(frames))

\* Variant: every frame gets the name of the first partner.
SetPartnerCountry_first(rows, country_name) ==
  [i \in DOMAIN rows |-> ("partner_country" :> "Chile") @@ rows[i]]

\* df['partner_country'] = country_name
SetPartnerCountry(rows, country_name) ==
  [i \in DOMAIN rows |-> ("partner_country" :> country_name) @@ rows[i]]

(* ---------------- the server ---------------- *)

\* A row object of the data array the server returns for a request.
Row(params, v) ==
  [reporterCode |-> params.reporterCode, partnerCode |-> params.partnerCode,
   period |-> params.period, flowCode |-> params.flowCode,
   cmdCode |-> params.cmdCode, primaryValue |-> v]

\* A non-empty data array: not sorted, and with a repeated row.
Payload(params) == <<Row(params, 2), Row(params, 1), Row(params, 2)>>

\* What requests.get and response.json() can do for one request.
\*   error     requests.get raises (connection error, timeout)
\*   json_ok   response.json() parses; has_data: the object has a 'data' key
Response(kind, error, status_code, json_ok, has_data, data) ==
  [kind |-> kind, error |-> error, status_code |-> status_code,
   json_ok |-> json_ok, has_data |-> has_data, data |-> data]

R_THROTTLED == Response("throttled", FALSE, 429, FALSE, FALSE, <<>>)

FinalResponses(params) ==
  { Response("data", FALSE, 200, TRUE, TRUE, Payload(params)),
    Response("empty", FALSE, 200, TRUE, TRUE, <<>>),
    Response("missing", FALSE, 200, TRUE, FALSE, <<>>),
    Response("bad_json", FALSE, 200, FALSE, FALSE, <<>>),
    Response("http_error", FALSE, 500, FALSE, FALSE, <<>>),
    Response("net_error", TRUE, 0, FALSE, FALSE, <<>>) }

FailureKinds == {"bad_json", "http_error", "net_error"}

\* A run of 429 answers that brings a fresh counter next to the near-limit
\* threshold, and one that takes it past max_calls.
Storm == max_calls - RESERVE - 2

LongStorm == max_calls

\* How many times in a row the server answers a request with HTTP 429.  Each
\* 429 nests one more call of download_year; these runs stay below the depth
\* (1000 frames by default) at which the interpreter raises RecursionError.
ThrottleRuns == {0, 1, Storm, LongStorm}

(* ---------------- QuotaTracker ---------------- *)

\* Variant: the condition is never true (the break and the exit are missing).
isNearLimit_never(calls) == FALSE

\* Variant: ">" in the place of ">=".
isNearLimit_strict(calls) == calls > max_calls - RESERVE

\* call_counter >= max_calls - 50   (lines 85 and 114)
isNearLimit(calls) == calls >= max_calls - RESERVE

(* ---------------- download_year ---------------- *)

\* Variant: "except requests.RequestException:" in the place of "except:".
Caught_requestsOnly(exc) == exc = "RequestException"

\* "except:" of line 70 catches every exception.
Caught(exc) == TRUE

\* Variant of Attempt: HTTP 429 falls through to "return None", no retry.
Attempt_noRetry(calls, response) ==
  LET pass(outcome, df, c) == [outcome |-> outcome, df |-> df, calls |-> c]
  IN IF response.error
       THEN pass("return", NoneDf, calls)
     ELSE IF response.status_code = 200 /\ response.json_ok
                /\ response.has_data /\ Len(response.data) > 0
       THEN pass("return", DataFrame(response.data), calls + 1)
     ELSE pass("return", NoneDf, calls + 1)

\* One pass through the body of download_year (lines 59-73) with
\* call_counter = calls, for one answer of the server.  The pass ends in
\* "return" (of df), in "retry" (line 69, after the sleep of line 68) or in
\* "raise" (an exception the except clause did not catch).
Attempt(calls, response) ==
  LET pass(outcome, df, c) == [outcome |-> outcome, df |-> df, calls |-> c]
      handle(exc, c) ==
        IF Caught(exc) THEN pass("return", NoneDf, c)
                       ELSE pass("raise", NoneDf, c)
  IN IF response.error
       THEN handle("RequestException", calls)
     ELSE LET counted == calls + 1 IN
       IF response.status_code = 200
         THEN IF ~response.json_ok
                THEN handle("JSONDecodeError", counted)
              ELSE IF response.has_data /\ Len(response.data) > 0
                THEN pass("return", DataFrame(response.data), counted)
              ELSE pass("return", NoneDf, counted)
       ELSE IF response.status_code = 429
         THEN pass("retry", NoneDf, counted)
       ELSE pass("return", NoneDf, counted)

\* The calls of download_year are nested, one per answer of the server: a
\* call that ends in "retry" sleeps 60 s and calls again, and every outer call
\* returns what the inner one returned (line 69).
\* Retried(s, response, n): the chain of calls in state s receives the same
\* answer n times in a row.  A pass of Attempt adds the same amount to
\* call_counter whatever its value, so n retries add n times that amount.
Retried(s, response, n) ==
  IF s.outcome # "retry" \/ n = 0 THEN s
  ELSE LET a == Attempt(s.calls, response)
       IN IF a.outcome # "retry"
            THEN [outcome |-> a.outcome, df |-> a.df, calls |-> a.calls,
                  trips |-> s.trips + 1, cooldowns |-> s.cooldowns]
            ELSE [outcome |-> "retry", df |-> NoneDf,
                  calls |-> s.calls + n * (a.calls - s.calls),
                  trips |-> s.trips + n, cooldowns |-> s.cooldowns + n]

\* Variant: every call of download_year counts from zero (call_counter a local
\* of the call, not the global of line 47).
download_year_ownCounter(calls, throttled, final) ==
  LET called == [outcome |-> "retry", df |-> NoneDf, calls |-> 0,
                 trips |-> 0, cooldowns |-> 0]
  IN Retried(Retried(called, R_THROTTLED, throttled), final, 1)

\* download_year called with call_counter = calls, when the server answers
\* the request and its retries with `throttled` times HTTP 429 and then with
\* `final`.
\* Result: outcome and df as for Attempt, the new call_counter, the number
\* of requests.get calls (trips) and of time.sleep(60) calls (cooldowns).
download_year(calls, throttled, final) ==
  LET called == [outcome |-> "retry", df |-> NoneDf, calls |-> calls,
                 trips |-> 0, cooldowns |-> 0]
  IN Retried(Retried(called, R_THROTTLED, throttled), final, 1)

(* ---------------- download_dataset ---------------- *)

\* Variant: the frames are concatenated even when there are none.
DatasetResult_alwaysFrame(frames) == DataFrame(concat(frames))

\* lines 88-90
DatasetResult(frames) ==
  IF Len(frames) > 0 THEN DataFrame(concat(frames)) ELSE NoneDf

\* Variant: range(start_year, end_year), the last year left out.
HasNextYear_exclusive(yr, end_year) == yr + 1 < end_year

\* the years the for loop of line 79 still has to visit after year yr
HasNextYear(yr, end_year) == yr + 1 < end_year + 1

(* ---------------- state ---------------- *)

VARIABLES
  pc,            \* where the program is: "start", "loop" (download_dataset, about
                 \* to call download_year for `year`), "return" (the loop is
                 \* over), "after" (main has the result of run `run` in df),
                 \* "lac_done", "exit0" (sys.exit(0)), "end", "crashed"
  run,           \* the call of download_dataset main is in or has just left
  year,          \* the loop variable of download_dataset
  all_data,      \* download_dataset's list of frames
  df,            \* main's df
  lac_data,      \* main's list of partner frames
  call_counter,  \* the module's call_counter
  csv,           \* the to_csv call of the last step of main: file name and
                 \* frame, or NoCsv if that step wrote no file
  \* history
  attempted,     \* calls of requests.get made so far
  issued,        \* the params of every download_year call main caused, in order
  runlog,        \* this run's download_year calls: year and whether rows came
  last,          \* the last download_year call of the download_dataset call in
                 \* progress: throttles, final answer, counter before
  checked,       \* the last evaluation of the near-limit condition
  sleeps,        \* time.sleep calls made so far, by kind
  faults,        \* the server: requests throttled or failed so far
  \* download_year seen one call of requests.get and one time.sleep at a time
  nested,        \* the calls of download_year that have not returned yet,
                 \* outermost first: the arguments of each
  wire           \* the last call of requests.get: its params, whether the
                 \* answer was HTTP 429, and the value of sleeps at that moment

vars == <<pc, run, year, all_data, df, lac_data, call_counter, csv,
          attempted, issued, runlog, last, checked, sleeps, faults,
          nested, wire>>

NoCsv == [name |-> "", frame |-> NoneDf]

NoLast == [run |-> 0, year |-> 0, throttled |-> 0, final |-> "", before |-> 0]

NoSleeps == [cooldown |-> 0, pacing |-> 0, partner |-> 0]

NoWire == [params |-> <<>>, throttled |-> FALSE, slept |-> NoSleeps]

Init ==
  /\ pc = "start"
  /\ run = 0
  /\ year = START_YEAR
  /\ all_data = <<>>
  /\ df = NoneDf
  /\ lac_data = <<>>
  /\ call_counter = 0
  /\ csv = NoCsv
  /\ attempted = 0
  /\ issued = <<>>
  /\ runlog = <<>>
  /\ last = NoLast
  /\ checked = [site |-> "none", calls |-> 0, near |-> FALSE]
  /\ sleeps = NoSleeps
  /\ faults = 0
  /\ nested = <<>>
  /\ wire = NoWire

(* ---------------- download_dataset, one year at a time ---------------- *)

\* Lines 79-86: one pass through the body of the for loop.  download_year is
\* called for `year` and runs to its return, retries included; the frame is
\* appended if there is one; time.sleep(1.5); the near-limit break; otherwise
\* the loop goes on to the next year or ends.  An exception that leaves
\* download_year leaves download_dataset and main too.
LoopIteration ==
  /\ pc = "loop"
  /\ \E throttled \in ThrottleRuns,
        final \in FinalResponses(Params(RunArgs(run), year)) :
       LET r == download_year(call_counter, throttled, final)
           near == isNearLimit(r.calls)
           faulty == IF throttled > 0 \/ final.kind \in FailureKinds THEN 1 ELSE 0
       IN /\ faults + faulty <= MaxFaults
          /\ faults' = faults + faulty
          /\ call_counter' = r.calls
          /\ attempted' = attempted + r.trips
          /\ issued' = Append(issued, Params(RunArgs(run), year))
          /\ last' = [run |-> run, year |-> year, throttled |-> throttled,
                      final |-> final.kind, before |-> call_counter]
          /\ IF r.outcome = "raise"
               THEN /\ pc' = "crashed"
                    /\ sleeps' = [sleeps EXCEPT !.cooldown = @ + r.cooldowns]
                    /\ UNCHANGED <<year, all_data, runlog, checked>>
               ELSE /\ all_data' = IF ~r.df.none
                                     THEN Append(all_data, r.df.rows)
                                     ELSE all_data
                    /\ runlog' = Append(runlog, [year |-> year, rows |-> ~r.df.none])
                    /\ sleeps' = [sleeps EXCEPT !.cooldown = @ + r.cooldowns,
                                                !.pacing = @ + 1]
                    /\ checked' = [site |-> "download_dataset", calls |-> r.calls,
                                   near |-> near]
                    /\ IF near
                         THEN pc' = "return" /\ year' = year
                       ELSE IF HasNextYear(year, END_YEAR)
                         THEN pc' = "loop" /\ year' = year + 1
                       ELSE pc' = "return" /\ year' = year
  /\ UNCHANGED <<run, df, lac_data, csv, nested, wire>>

\* Lines 88-90: download_dataset returns to main.
Return ==
  /\ pc = "return"
  /\ df' = DatasetResult(all_data)
  /\ pc' = "after"
  /\ last' = NoLast
  /\ UNCHANGED <<faults, run, year, all_data, lac_data, call_counter, csv,
                 attempted, issued, runlog, checked, sleeps, nested, wire>>

(* ---------------- main ---------------- *)

\* main calls download_dataset for run n (lines 77-79: a new list, first year)
Call(n) ==
  /\ run' = n
  /\ year' = START_YEAR
  /\ all_data' = <<>>
  /\ runlog' = <<>>
  /\ pc' = "loop"

\* "if df is not None: df.to_csv(name)"
ToCsvIfPresent(name) ==
  IF ~df.none
    THEN csv' = [name |-> name, frame |-> df]
    ELSE csv' = NoCsv

\* Lines 95-101
Download1 ==
  /\ pc = "start"
  /\ Call(1)
  /\ csv' = NoCsv
  /\ UNCHANGED <<faults, df, lac_data, call_counter, attempted, issued,
                 last, checked, sleeps, nested, wire>>

\* Lines 102-109
Download2 ==
  /\ pc = "after" /\ run = 1
  /\ ToCsvIfPresent(FILE_1)
  /\ Call(2)
  /\ UNCHANGED <<faults, df, lac_data, call_counter, attempted, issued, last, checked,
                 sleeps, nested, wire>>

\* Variant of Download3: lines 114-116 are missing.
Download3_noCheck ==
  /\ pc = "after" /\ run = 2
  /\ ToCsvIfPresent(FILE_2)
  /\ checked' = [site |-> "main", calls |-> call_counter,
                 near |-> isNearLimit(call_counter)]
  /\ Call(3)
  /\ UNCHANGED <<faults, df, lac_data, call_counter, attempted, issued, last, sleeps,
                 nested, wire>>

\* Lines 110-121
Download3 ==
  /\ pc = "after" /\ run = 2
  /\ ToCsvIfPresent(FILE_2)
  /\ checked' = [site |-> "main", calls |-> call_counter,
                 near |-> isNearLimit(call_counter)]
  /\ IF isNearLimit(call_counter)
       THEN /\ pc' = "exit0"
            /\ UNCHANGED <<run, year, all_data, runlog>>
       ELSE Call(3)
  /\ UNCHANGED <<faults, df, lac_data, call_counter, attempted, issued, last, sleeps,
                 nested, wire>>

\* Lines 122-131
Download4 ==
  /\ pc = "after" /\ run = 3
  /\ ToCsvIfPresent(FILE_3)
  /\ lac_data' = <<>>
  /\ Call(4)
  /\ UNCHANGED <<faults, df, call_counter, attempted, issued, last, checked, sleeps,
                 nested, wire>>

\* Variant of NextPartner: the partner loop ends when the near-limit
\* condition is true.
NextPartner_stopsNearLimit ==
  /\ pc = "after" /\ run > 3
  /\ LET country_name == LAC_PARTNERS[run - 3]
         tagged == SetPartnerCountry(df.rows, country_name)
     IN IF ~df.none
          THEN /\ df' = DataFrame(tagged)
               /\ lac_data' = Append(lac_data, tagged)
          ELSE UNCHANGED <<df, lac_data>>
  /\ sleeps' = [sleeps EXCEPT !.partner = @ + 1]
  /\ IF run < NumRuns /\ ~isNearLimit(call_counter)
       THEN Call(run + 1)
       ELSE /\ pc' = "lac_done"
            /\ UNCHANGED <<run, year, all_data, runlog>>
  /\ csv' = NoCsv
  /\ UNCHANGED <<faults, call_counter, attempted, issued, last, checked, nested, wire>>

\* Lines 132-135, then the next pass of the for loop of line 129 or its end
NextPartner ==
  /\ pc = "after" /\ run > 3
  /\ LET country_name == LAC_PARTNERS[run - 3]
         tagged == SetPartnerCountry(df.rows, country_name)
     IN IF ~df.none
          THEN /\ df' = DataFrame(tagged)
               /\ lac_data' = Append(lac_data, tagged)
          ELSE UNCHANGED <<df, lac_data>>
  /\ sleeps' = [sleeps EXCEPT !.partner = @ + 1]
  /\ IF run < NumRuns
       THEN Call(run + 1)
       ELSE /\ pc' = "lac_done"
            /\ UNCHANGED <<run, year, all_data, runlog>>
  /\ csv' = NoCsv
  /\ UNCHANGED <<faults, call_counter, attempted, issued, last, checked, nested, wire>>

\* Lines 137-148
Finish ==
  /\ pc = "lac_done"
  /\ IF Len(lac_data) > 0
       THEN LET df_lac == DataFrame(concat(lac_data))
            IN csv' = [name |-> FILE_LAC, frame |-> df_lac]
       ELSE csv' = NoCsv
  /\ pc' = "end"
  /\ UNCHANGED <<faults, run, year, all_data, df, lac_data, call_counter, attempted,
                 issued, runlog, last, checked, sleeps, nested, wire>>

Next ==
  \/ LoopIteration
  \/ Return
  \/ Download1
  \/ Download2
  \/ Download3
  \/ Download4
  \/ NextPartner
  \/ Finish

Spec == Init /\ [][Next]_vars

(* ---------------- download_dataset, one requests.get at a time ---------------- *)

\* The same campaign with the loop body of download_dataset taken apart: a
\* step is the call of download_year, one requests.get with what follows it
\* up to the next sleep or the return, one time.sleep, or the near-limit test.
\* Here pc is also "get" (a call of download_year is about to call
\* requests.get), "cooldown" (it got HTTP 429 and is about to sleep), "pace"
\* (download_year has returned to line 81) and "check" (line 85 is next).
\* last is not kept here: wire tells what the last request was.

\* The number of nested calls of download_year in which requests.get still
\* has the stack it needs; one level deeper the interpreter raises
\* RecursionError.  sys.getrecursionlimit() is 1000 unless the program
\* changes it, and the source never does; the model lets this many calls nest.
RecursionLimit == 3

\* the arguments of one call of download_year (line 45)
Frame(args, yr) ==
  [reporter |-> args.reporter, partner |-> args.partner, year |-> yr,
   flow |-> args.flow, cmd_code |-> args.cmd_code]

\* Line 80: download_dataset calls download_year for `year`.
YearCall ==
  /\ pc = "loop"
  /\ nested' = <<Frame(RunArgs(run), year)>>
  /\ issued' = Append(issued, Params(RunArgs(run), year))
  /\ pc' = "get"
  /\ UNCHANGED <<run, year, all_data, df, lac_data, call_counter, csv, attempted,
                 runlog, last, checked, sleeps, faults, wire>>

\* The innermost call of download_year returns result, every call around it
\* returns the same (line 69), and download_dataset appends it if it is a
\* frame (lines 80-82).
YearReturns(result) ==
  /\ nested' = <<>>
  /\ all_data' = IF ~result.none THEN Append(all_data, result.rows) ELSE all_data
  /\ runlog' = Append(runlog, [year |-> year, rows |-> ~result.none])
  /\ pc' = "pace"

\* Lines 59-73 in the innermost call: requests.get with the params built from
\* the call's own arguments, the increment, and the branch on the answer, up
\* to the sleep of line 68 or to the return.
\* In a call nested deeper than RecursionLimit the interpreter raises
\* RecursionError somewhere below requests.get, before the request has left
\* or after (sent), and in either case before line 61; the "except:" of line
\* 70 catches it and the call returns None.
Request ==
  /\ pc = "get"
  /\ LET f == nested[Len(nested)]
         params == Params(f, f.year)
     IN IF Len(nested) <= RecursionLimit
          THEN \E response \in {R_THROTTLED} \cup FinalResponses(params) :
                 LET a == Attempt(call_counter, response)
                     faulty == IF Len(nested) = 1
                                   /\ (response.kind = "throttled"
                                         \/ response.kind \in FailureKinds)
                                 THEN 1 ELSE 0
                 IN /\ faults + faulty <= MaxFaults
                    /\ faults' = faults + faulty
                    /\ call_counter' = a.calls
                    /\ attempted' = attempted + 1
                    /\ wire' = [params |-> params,
                                throttled |-> response.status_code = 429,
                                slept |-> sleeps]
                    /\ CASE a.outcome = "retry" ->
                              /\ pc' = "cooldown"
                              /\ UNCHANGED <<nested, all_data, runlog>>
                         [] a.outcome = "raise" ->
                              /\ pc' = "crashed"
                              /\ UNCHANGED <<nested, all_data, runlog>>
                         [] OTHER -> YearReturns(a.df)
          ELSE \E sent \in BOOLEAN :
                 /\ attempted' = IF sent THEN attempted + 1 ELSE attempted
                 /\ wire' = IF sent
                              THEN [params |-> params, throttled |-> FALSE,
                                    slept |-> sleeps]
                              ELSE wire
                 /\ UNCHANGED <<call_counter, faults>>
                 /\ IF Caught("RecursionError")
                      THEN YearReturns(NoneDf)
                      ELSE /\ pc' = "crashed"
                           /\ UNCHANGED <<nested, all_data, runlog>>
  /\ UNCHANGED <<run, year, df, lac_data, csv, issued, last, checked, sleeps>>

\* Variant of Cooldown: line 68 is missing, the retry follows at once.
Cooldown_noSleep ==
  /\ pc = "cooldown"
  /\ nested' = Append(nested, nested[Len(nested)])
  /\ pc' = "get"
  /\ UNCHANGED <<run, year, all_data, df, lac_data, call_counter, csv, attempted,
                 issued, runlog, last, checked, sleeps, faults, wire>>

\* Lines 68-69 after an HTTP 429: time.sleep(60), then download_year calls
\* itself with the arguments it was called with.
Cooldown ==
  /\ pc = "cooldown"
  /\ sleeps' = [sleeps EXCEPT !.cooldown = @ + 1]
  /\ nested' = Append(nested, nested[Len(nested)])
  /\ pc' = "get"
  /\ UNCHANGED <<run, year, all_data, df, lac_data, call_counter, csv, attempted,
                 issued, runlog, last, checked, faults, wire>>

\* Line 83: time.sleep(1.5)
Pace ==
  /\ pc = "pace"
  /\ sleeps' = [sleeps EXCEPT !.pacing = @ + 1]
  /\ pc' = "check"
  /\ UNCHANGED <<run, year, all_data, df, lac_data, call_counter, csv, attempted,
                 issued, runlog, last, checked, faults, nested, wire>>

\* Lines 85-86 and the head of the for loop (line 79): the near-limit break,
\* the next year, or the end of the range.
Check ==
  /\ pc = "check"
  /\ LET near == isNearLimit(call_counter)
     IN /\ checked' = [site |-> "download_dataset", calls |-> call_counter,
                       near |-> near]
        /\ IF near
             THEN pc' = "return" /\ year' = year
           ELSE IF HasNextYear(year, END_YEAR)
             THEN pc' = "loop" /\ year' = year + 1
           ELSE pc' = "return" /\ year' = year
  /\ UNCHANGED <<run, all_data, df, lac_data, call_counter, csv, attempted,
                 issued, runlog, last, sleeps, faults, nested, wire>>

NextSteps ==
  \/ YearCall
  \/ Request
  \/ Cooldown
  \/ Pace
  \/ Check
  \/ Return
  \/ Download1
  \/ Download2
  \/ Download3
  \/ Download4
  \/ NextPartner
  \/ Finish

SpecSteps == Init /\ [][NextSteps]_vars

(* ---------------- 05_download_comtrade.py ---------------- *)

\* The second entry point, taken from its own text: its constants, its
\* download_year, its download_dataset and its main (which prints nothing and
\* keeps no times).  The line numbers of this section are those of
\* 05_download_comtrade.py.  The server, requests and pandas are those of the
\* first entry point.

\* line 42
max_calls_05 == 500

\* the literal 50 of lines 84 and 106
RESERVE_05 == 50

\* 1992 in lines 96, 102, 111 and 119
START_YEAR_05 == 1992

\* 2023 in the source; the model stops after MaxYears years
END_YEAR_05 == START_YEAR_05 + MaxYears - 1

\* lines 30-39
COUNTRIES_05 ==
  [name \in {"Colombia", "China", "World", "Chile", "Peru", "Brazil",
             "Argentina", "Ecuador"} |->
     CASE name = "Colombia"  -> "170"
       [] name = "China"     -> "156"
       [] name = "World"     -> "0"
       [] name = "Chile"     -> "152"
       [] name = "Peru"      -> "604"
       [] name = "Brazil"    -> "076"
       [] name = "Argentina" -> "032"
       [] name = "Ecuador"   -> "218"]

\* the list of the for loop of line 117, cut to MaxPartners partners
LAC_PARTNERS_05 ==
  SubSeq(<<"Chile", "Peru", "Brazil", "Argentina", "Ecuador">>, 1, MaxPartners)

\* the file names of lines 98, 104, 113 and 127
FILE_1_05 == "colombia_imports_from_china_HS6.csv"
FILE_2_05 == "colombia_imports_from_world_HS6.csv"
FILE_3_05 == "colombia_exports_to_world_HS6.csv"
FILE_LAC_05 == "china_exports_to_lac_HS6.csv"

\* the calls of download_dataset of lines 95, 101, 110 and 118
NumRuns_05 == 3 + Len(LAC_PARTNERS_05)

RunArgs_05(n) ==
  CASE n = 1 -> [reporter |-> COUNTRIES_05["Colombia"], partner |-> COUNTRIES_05["China"],
                 flow |-> "M", cmd_code |-> "AG6"]
    [] n = 2 -> [reporter |-> COUNTRIES_05["Colombia"], partner |-> COUNTRIES_05["World"],
                 flow |-> "M", cmd_code |-> "AG6"]
    [] n = 3 -> [reporter |-> COUNTRIES_05["Colombia"], partner |-> COUNTRIES_05["World"],
                 flow |-> "X", cmd_code |-> "AG6"]
    [] OTHER -> [reporter |-> COUNTRIES_05["China"],
                 partner |-> COUNTRIES_05[LAC_PARTNERS_05[n - 3]],
                 flow |-> "X", cmd_code |-> "AG6"]

\* lines 50-56
Params_05(args, yr) ==
  [reporterCode |-> args.reporter, period |-> ToString(yr),
   partnerCode |-> args.partner, flowCode |-> args.flow,
   cmdCode |-> args.cmd_code]

\* call_counter >= max_calls - 50   (lines 84 and 106)
isNearLimit_05(calls) == calls >= max_calls_05 - RESERVE_05

\* "except:" of line 69
Caught_05(exc) == TRUE

\* one pass through lines 58-72, for one answer of the server
Attempt_05(calls, response) ==
  LET pass(outcome, frame, c) == [outcome |-> outcome, df |-> frame, calls |-> c]
      handle(exc, c) ==
        IF Caught_05(exc) THEN pass("return", NoneDf, c)
                       ELSE pass("raise", NoneDf, c)
  IN IF response.error
       THEN handle("RequestException", calls)
     ELSE LET counted == calls + 1 IN
       IF response.status_code = 200
         THEN IF ~response.json_ok
                THEN handle("JSONDecodeError", counted)
              ELSE IF response.has_data /\ Len(response.data) > 0
                THEN pass("return", DataFrame(response.data), counted)
              ELSE pass("return", NoneDf, counted)
       ELSE IF response.status_code = 429
         THEN pass("retry", NoneDf, counted)
       ELSE pass("return", NoneDf, counted)

\* lines 66-68: the same answer n times in a row
Retried_05(s, response, n) ==
  IF s.outcome # "retry" \/ n = 0 THEN s
  ELSE LET a == Attempt_05(s.calls, response)
       IN IF a.outcome # "retry"
            THEN [outcome |-> a.outcome, df |-> a.df, calls |-> a.calls,
                  trips |-> s.trips + 1, cooldowns |-> s.cooldowns]
            ELSE [outcome |-> "retry", df |-> NoneDf,
                  calls |-> s.calls + n * (a.calls - s.calls),
                  trips |-> s.trips + n, cooldowns |-> s.cooldowns + n]

\* lines 44-72, for `throttled` answers 429 and then `final`
download_year_05(calls, throttled, final) ==
  LET called == [outcome |-> "retry", df |-> NoneDf, calls |-> calls,
                 trips |-> 0, cooldowns |-> 0]
  IN Retried_05(Retried_05(called, R_THROTTLED, throttled), final, 1)

\* lines 87-89
DatasetResult_05(frames) ==
  IF Len(frames) > 0 THEN DataFrame(concat(frames)) ELSE NoneDf

\* range(start_year, end_year + 1) of line 78
HasNextYear_05(yr, end_year) == yr + 1 < end_year + 1

\* lines 78-85: one pass through the body of the for loop
LoopIteration_05 ==
  /\ pc = "loop"
  /\ \E throttled \in ThrottleRuns,
        final \in FinalResponses(Params_05(RunArgs_05(run), year)) :
       LET r == download_year_05(call_counter, throttled, final)
           near == isNearLimit_05(r.calls)
           faulty == IF throttled > 0 \/ final.kind \in FailureKinds THEN 1 ELSE 0
       IN /\ faults + faulty <= MaxFaults
          /\ faults' = faults + faulty
          /\ call_counter' = r.calls
          /\ attempted' = attempted + r.trips
          /\ issued' = Append(issued, Params_05(RunArgs_05(run), year))
          /\ last' = [run |-> run, year |-> year, throttled |-> throttled,
                      final |-> final.kind, before |-> call_counter]
          /\ IF r.outcome = "raise"
               THEN /\ pc' = "crashed"
                    /\ sleeps' = [sleeps EXCEPT !.cooldown = @ + r.cooldowns]
                    /\ UNCHANGED <<year, all_data, runlog, checked>>
               ELSE /\ all_data' = IF ~r.df.none
                                     THEN Append(all_data, r.df.rows)
                                     ELSE all_data
                    /\ runlog' = Append(runlog, [year |-> year, rows |-> ~r.df.none])
                    /\ sleeps' = [sleeps EXCEPT !.cooldown = @ + r.cooldowns,
                                                !.pacing = @ + 1]
                    /\ checked' = [site |-> "download_dataset", calls |-> r.calls,
                                   near |-> near]
                    /\ IF near
                         THEN pc' = "return" /\ year' = year
                       ELSE IF HasNextYear_05(year, END_YEAR_05)
                         THEN pc' = "loop" /\ year' = year + 1
                       ELSE pc' = "return" /\ year' = year
  /\ UNCHANGED <<run, df, lac_data, csv, nested, wire>>

\* lines 87-89: download_dataset returns to main
Return_05 ==
  /\ pc = "return"
  /\ df' = DatasetResult_05(all_data)
  /\ pc' = "after"
  /\ last' = NoLast
  /\ UNCHANGED <<faults, run, year, all_data, lac_data, call_counter, csv,
                 attempted, issued, runlog, checked, sleeps, nested, wire>>

\* lines 76-78: main calls download_dataset for run n
Call_05(n) ==
  /\ run' = n
  /\ year' = START_YEAR_05
  /\ all_data' = <<>>
  /\ runlog' = <<>>
  /\ pc' = "loop"

\* "if df is not None: df.to_csv(name)"
ToCsvIfPresent_05(name) ==
  IF ~df.none
    THEN csv' = [name |-> name, frame |-> df]
    ELSE csv' = NoCsv

\* lines 94-96
Download1_05 ==
  /\ pc = "start"
  /\ Call_05(1)
  /\ csv' = NoCsv
  /\ UNCHANGED <<faults, df, lac_data, call_counter, attempted, issued,
                 last, checked, sleeps, nested, wire>>

\* lines 97-102
Download2_05 ==
  /\ pc = "after" /\ run = 1
  /\ ToCsvIfPresent_05(FILE_1_05)
  /\ Call_05(2)
  /\ UNCHANGED <<faults, df, lac_data, call_counter, attempted, issued, last, checked,
                 sleeps, nested, wire>>

\* Variant of Download3_05: sys.exit(0) is taken only above the threshold.
Download3_05_exitsLater ==
  /\ pc = "after" /\ run = 2
  /\ ToCsvIfPresent_05(FILE_2_05)
  /\ checked' = [site |-> "main", calls |-> call_counter,
                 near |-> isNearLimit_05(call_counter)]
  /\ IF call_counter > max_calls_05 - RESERVE_05
       THEN /\ pc' = "exit0"
            /\ UNCHANGED <<run, year, all_data, runlog>>
       ELSE Call_05(3)
  /\ UNCHANGED <<faults, df, lac_data, call_counter, attempted, issued, last, sleeps,
                 nested, wire>>

\* lines 103-111
Download3_05 ==
  /\ pc = "after" /\ run = 2
  /\ ToCsvIfPresent_05(FILE_2_05)
  /\ checked' = [site |-> "main", calls |-> call_counter,
                 near |-> isNearLimit_05(call_counter)]
  /\ IF isNearLimit_05(call_counter)
       THEN /\ pc' = "exit0"
            /\ UNCHANGED <<run, year, all_data, runlog>>
       ELSE Call_05(3)
  /\ UNCHANGED <<faults, df, lac_data, call_counter, attempted, issued, last, sleeps,
                 nested, wire>>

\* lines 112-119
Download4_05 ==
  /\ pc = "after" /\ run = 3
  /\ ToCsvIfPresent_05(FILE_3_05)
  /\ lac_data' = <<>>
  /\ Call_05(4)
  /\ UNCHANGED <<faults, df, call_counter, attempted, issued, last, checked, sleeps,
                 nested, wire>>

\* lines 120-123, then the next pass of the for loop of line 117 or its end
NextPartner_05 ==
  /\ pc = "after" /\ run > 3
  /\ LET country_name == LAC_PARTNERS_05[run - 3]
         tagged == SetPartnerCountry(df.rows, country_name)
     IN IF ~df.none
          THEN /\ df' = DataFrame(tagged)
               /\ lac_data' = Append(lac_data, tagged)
          ELSE UNCHANGED <<df, lac_data>>
  /\ sleeps' = [sleeps EXCEPT !.partner = @ + 1]
  /\ IF run < NumRuns_05
       THEN Call_05(run + 1)
       ELSE /\ pc' = "lac_done"
            /\ UNCHANGED <<run, year, all_data, runlog>>
  /\ csv' = NoCsv
  /\ UNCHANGED <<faults, call_counter, attempted, issued, last, checked, nested, wire>>

\* lines 125-127
Finish_05 ==
  /\ pc = "lac_done"
  /\ IF Len(lac_data) > 0
       THEN LET df_lac == DataFrame(concat(lac_data))
            IN csv' = [name |-> FILE_LAC_05, frame |-> df_lac]
       ELSE csv' = NoCsv
  /\ pc' = "end"
  /\ UNCHANGED <<faults, run, year, all_data, df, lac_data, call_counter, attempted,
                 issued, runlog, last, checked, sleeps, nested, wire>>

Next_05 ==
  \/ LoopIteration_05
  \/ Return_05
  \/ Download1_05
  \/ Download2_05
  \/ Download3_05
  \/ Download4_05
  \/ NextPartner_05
  \/ Finish_05

\* Either entry point takes a step.
NextBoth ==
  \/ Next
  \/ Next_05

SpecBoth == Init /\ [][NextBoth]_vars

(* ---------------- what the claims speak of ---------------- *)

\* call_counter >= max_calls - 50, as the claims state it
NearLimitNow == call_counter >= 500 - 50

\* The rows that the years of log brought, in the order of log, for run n.
RECURSIVE Gathered(_, _)
Gathered(n, log) ==
  IF log = <<>> THEN <<>>
  ELSE (IF Head(log).rows THEN Payload(Params(RunArgs(n), Head(log).year))
                          ELSE <<>>)
       \o Gathered(n, Tail(log))

YearsOf(log) == [i \in DOMAIN log |-> log[i].year]

\* download_dataset has fetched at least one year and is in or just past its loop
InRun == pc \in {"loop", "return"} /\ runlog # <<>>

\* The state main is in right after the segment that follows run n.
JustAfterRun(n) ==
  \/ pc = "loop" /\ runlog = <<>> /\ run = n + 1
  \/ pc = "exit0" /\ n = 2
  \/ pc = "lac_done" /\ n = NumRuns

\* (reporter, partner, flow) of the datasets in the order main downloads them
DatasetsInOrder ==
  << <<"170", "156", "M">>, <<"170", "0", "M">>, <<"170", "0", "X">>,
     <<"156", "152", "X">>, <<"156", "604", "X">>, <<"156", "076", "X">>,
     <<"156", "032", "X">>, <<"156", "218", "X">> >>

\* 1, 2, 3 for the single-partner datasets, 4.. for the partners of the fourth
DatasetOf(params) ==
  CHOOSE i \in DOMAIN DatasetsInOrder :
    DatasetsInOrder[i] = <<params.reporterCode, params.partnerCode, params.flowCode>>

(* ---------------- C1 ---------------- *)

\* C1: the call counter equals the number of HTTP round-trips attempted so
\* far, whatever the outcome of each attempt (data, empty, 429, another
\* status, a transport error, a body that does not parse).
C1_CounterEqualsAttempts == call_counter = attempted

(* ---------------- C2 ---------------- *)

\* C2: if the near-limit condition is true after the pacing wait that follows
\* year y of a run, download_dataset fetches no later year in that run (it is
\* never about to call download_year again), and what it returns is exactly
\* the rows gathered for the years from the start year to y.
C2_StopsWhenNearLimit ==
  /\ (pc = "loop" /\ runlog # <<>>) => ~NearLimitNow
  /\ (pc \in {"return", "after"} /\ NearLimitNow) =>
       /\ YearsOf(runlog) = [i \in 1..(year - START_YEAR + 1) |-> START_YEAR + i - 1]
       /\ pc = "after" => df.rows = Gathered(run, runlog)

\* A run that stopped before its last year and returned the rows it had.
C2_Witness ==
  /\ pc = "after"
  /\ NearLimitNow
  /\ year < END_YEAR
  /\ ~df.none
  /\ df.rows = Gathered(run, runlog)

(* ---------------- C3 ---------------- *)

\* C3: in every state of a campaign, whatever the server answers, the call
\* counter does not exceed max_calls (500).
C3_CounterWithinQuota == call_counter <= 500

(* ---------------- C4 ---------------- *)

\* C4 as stated: the near-limit condition is checked after the first dataset
\* run and again after the second, and when it is true no HTTP attempt is made
\* for the datasets that remain: main never enters the second or the third
\* call of download_dataset with the condition true.
C4_ChecksAfterFirstAndSecond ==
  (pc = "loop" /\ runlog = <<>> /\ run \in {2, 3}) => ~NearLimitNow

\* C4 amended: the datasets are requested in the fixed order, none left out
\* before a later one is requested; the near-limit
\* condition is checked once, after the second dataset run (its file
\* written); when true there, main exits with status 0 having made no HTTP
\* attempt and written no file for the third and fourth datasets, and when
\* false it goes on; the second dataset is always started, whatever the
\* counter after the first.
C4_ChecksAfterSecondOnly ==
  /\ issued # <<>> => DatasetOf(issued[1]) = 1
  /\ \A i \in 1..(Len(issued) - 1) :
       LET d == DatasetOf(issued[i])
           e == DatasetOf(issued[i + 1])
       IN d <= e /\ e <= d + 1
  /\ (pc = "loop" /\ runlog = <<>> /\ run = 3) => ~NearLimitNow
  /\ checked.site = "main" => (pc = "exit0" <=> checked.calls >= 500 - 50)
  /\ pc = "exit0" =>
       /\ NearLimitNow
       /\ checked.site = "main"
       /\ \A i \in DOMAIN issued : DatasetOf(issued[i]) <= 2
       /\ csv.name \in {"", FILE_2}
  /\ (pc = "exit0" \/ run > 2) =>
       \E i \in DOMAIN issued :
         DatasetOf(issued[i]) = 2 /\ issued[i].period = "1992"

\* main has left through sys.exit(0) after two years of the first dataset and
\* one year of the second.
C4_Witness ==
  /\ pc = "exit0"
  /\ \E i \in DOMAIN issued : DatasetOf(issued[i]) = 1 /\ i > 1
  /\ Len(issued) = 3

(* ---------------- C5 ---------------- *)

\* C5: a run in which no year brought rows returns None, never a frame
\* without rows; to_csv is never called with an absent or empty frame, and
\* is not called after a run whose result is None, the partner loop included:
\* an absent partner result adds nothing to lac_data, and with lac_data empty
\* the LAC file is not written.
C5_AbsentNeverWritten ==
  /\ pc = "after" =>
       /\ df.none <=> (\A i \in DOMAIN runlog : ~runlog[i].rows)
       /\ ~df.none => Len(df.rows) > 0
  /\ csv # NoCsv => (~csv.frame.none /\ Len(csv.frame.rows) > 0)
  /\ \A n \in 1..3 : (JustAfterRun(n) /\ df.none) => csv = NoCsv
  /\ \A n \in 4..NumRuns :
       JustAfterRun(n) =>
         (df.none <=> \A k \in DOMAIN lac_data :
                         lac_data[k][1].partner_country # LAC_PARTNERS[n - 3])
  /\ \A k \in DOMAIN lac_data : Len(lac_data[k]) > 0
  /\ pc = "end" => (csv = NoCsv <=> lac_data = <<>>)
  /\ pc = "end" => (csv = NoCsv \/ csv.name = FILE_LAC)

\* The whole campaign ran, no request brought rows, and nothing was written.
C5_Witness ==
  /\ pc = "end"
  /\ df.none
  /\ lac_data = <<>>
  /\ csv = NoCsv
  /\ Len(issued) = NumRuns * MaxYears

(* ---------------- C6 ---------------- *)

C7_ConcatenatesAllYears ==
  (pc = "after" /\ ~NearLimitNow) =>
    /\ YearsOf(runlog) = [i \in 1..MaxYears |-> START_YEAR + i - 1]
    /\ Len(issued) >= MaxYears
    /\ \A i \in 1..MaxYears :
         issued[Len(issued) - MaxYears + i] =
           Params(RunArgs(run), START_YEAR + i - 1)
    /\ df.rows = Gathered(run, runlog)

\* A full run whose first and last year both brought rows.
C7_Witness ==
  /\ pc = "after"
  /\ ~NearLimitNow
  /\ runlog[1].rows
  /\ runlog[Len(runlog)].rows
  /\ Len(df.rows) >= 2 * Len(Payload(Params(RunArgs(run), START_YEAR)))

(* ---------------- C8 ---------------- *)

\* position of a partner's name in the list of line 129
PartnerIndex(name) ==
  CHOOSE i \in 1..5 :
    <<"Chile", "Peru", "Brazil", "Argentina", "Ecuador">>[i] = name

RECURSIVE TotalRows(_)
TotalRows(frames) ==
  IF frames = <<>> THEN 0 ELSE Len(Head(frames)) + TotalRows(Tail(frames))

LabelledRight(row) ==
  /\ row.partner_country \in {"Chile", "Peru", "Brazil", "Argentina", "Ecuador"}
  /\ COUNTRIES[row.partner_country] = row.partnerCode

\* C8: every row of the multi-partner result carries as partner_country the
\* name of the partner it was fetched for, and the rows of an earlier partner
\* of the list come before those of every later partner.
C8_PartnerLabels ==
  /\ \A k \in DOMAIN lac_data : \A i \in DOMAIN lac_data[k] :
       LabelledRight(lac_data[k][i])
  /\ \A k, m \in DOMAIN lac_data :
       k < m => PartnerIndex(lac_data[k][1].partner_country)
                  < PartnerIndex(lac_data[m][1].partner_country)
  /\ csv.name = FILE_LAC =>
       LET rows == csv.frame.rows
       IN /\ \A i \in DOMAIN rows : LabelledRight(rows[i])
          /\ \A i, j \in DOMAIN rows :
               i < j => PartnerIndex(rows[i].partner_country)
                          <= PartnerIndex(rows[j].partner_country)
          /\ Len(rows) = TotalRows(lac_data)

\* The LAC file was written with rows of the first two partners.
C8_Witness ==
  /\ pc = "end"
  /\ csv.name = FILE_LAC
  /\ \E i, j \in DOMAIN csv.frame.rows :
       /\ csv.frame.rows[i].partner_country = "Chile"
       /\ csv.frame.rows[j].partner_country = "Peru"

(* ---------------- C9 ---------------- *)

NoRowsKinds == {"empty", "missing", "bad_json", "http_error", "net_error"}

\* C9: no exception leaves download_year; after a status other than 200 and
\* 429, a transport error or a body that does not parse, download_year has
\* returned None as it does for an empty answer: nothing is appended, the
\* pacing wait is taken, and download_dataset goes on with the next year
\* unless the range is over or the near-limit condition holds.
C9_ErrorsSwallowed ==
  /\ pc # "crashed"
  /\ sleeps.pacing = Len(issued)
  /\ (InRun /\ last.final \in NoRowsKinds) =>
       /\ runlog[Len(runlog)] = [year |-> last.year, rows |-> FALSE]
       /\ Len(all_data) = Cardinality({i \in DOMAIN runlog : runlog[i].rows})
       /\ (~NearLimitNow /\ last.year < END_YEAR) =>
            (pc = "loop" /\ year = last.year + 1)
       /\ (NearLimitNow \/ last.year = END_YEAR) => pc = "return"

\* A body that did not parse, and the loop is at the next year.
C9_Witness ==
  /\ InRun
  /\ last.final = "bad_json"
  /\ pc = "loop"
  /\ year = last.year + 1
  /\ sleeps.pacing = Len(issued)

(* ---------------- C10 ---------------- *)

\* C10: the near-limit condition, in download_dataset and in main, is true
\* exactly when callsMade >= maxCalls - reserve: with 500 and 50, false at 449
\* and true at 450 and above; download_dataset leaves its loop and main exits
\* exactly on that value.
C10_NearLimitThreshold ==
  checked.site # "none" =>
    /\ checked.near <=> checked.calls >= max_calls - RESERVE
    /\ checked.calls <= 449 => ~checked.near
    /\ checked.calls >= 450 => checked.near
    /\ (checked.site = "download_dataset" /\ pc = "loop" /\ runlog # <<>>) =>
         ~checked.near
    /\ (checked.site = "download_dataset" /\ InRun /\ ~checked.near
          /\ year < END_YEAR) => pc = "loop"
    /\ checked.site = "main" => (checked.near <=> pc = "exit0")

\* main evaluated the condition at exactly 450 calls.
C10_Witness ==
  /\ checked.site = "main"
  /\ checked.calls = 450
  /\ checked.near
  /\ pc = "exit0"

\* download_dataset evaluated the condition at exactly 449 calls and went on.
C10_WitnessBelow ==
  /\ checked.site = "download_dataset"
  /\ checked.calls = 449
  /\ ~checked.near
  /\ pc = "loop"

(* ---------------- C14 ---------------- *)

\* C14: no step of the campaign (a download_year call with its retries, the
\* return of download_dataset, a segment of main that starts the next dataset
\* run or the next partner) decreases or resets the call counter, and the
\* near-limit condition, once true, is true after every later step.
C14_CounterMonotone ==
  [][/\ call_counter' >= call_counter
     /\ NearLimitNow => NearLimitNow'
     /\ (run' # run \/ pc' \in {"after", "exit0", "lac_done", "end"}) =>
          call_counter' = call_counter]_vars

\* The second partner's run has been started with the counter, raised by the
\* earlier runs, at or over the threshold.
C14_Witness ==
  /\ pc = "loop"
  /\ run = 5
  /\ runlog = <<>>
  /\ NearLimitNow

(* ---------------- C15 ---------------- *)

\* the download_year calls made so far for dataset d (4.. are the partners)
FetchesOf(d) == Cardinality({i \in DOMAIN issued : DatasetOf(issued[i]) = d})

\* The partner loop is over; if the run of dataset 3 or of a partner stopped
\* before its last year, every partner after it was fetched exactly once.
OneFetchAfterLimit ==
  pc \in {"lac_done", "end"} =>
    \A j \in 3..NumRuns :
      FetchesOf(j) < MaxYears =>
        \A k \in (j + 1)..NumRuns :
          /\ FetchesOf(k) = 1
          /\ \E i \in DOMAIN issued :
               issued[i] = Params(RunArgs(k), START_YEAR)

\* C15: the first pass of download_dataset's loop fetches the start year
\* whatever the counter is, and with the near-limit condition already true it
\* is the only fetch of that run; main goes from dataset 3 to the first
\* partner and from each partner to the next whatever the counter is, so that
\* every partner that remains when the limit is reached is fetched exactly
\* once; the rows a partner returned are kept, and the multi-partner file is
\* written with them whenever any partner returned rows.
C15_StartYearAlwaysFetched ==
  [][/\ (pc = "loop" /\ runlog = <<>>) =>
          /\ issued' = Append(issued, Params(RunArgs(run), START_YEAR))
          /\ pc' \in {"loop", "return"}
          /\ NearLimitNow =>
               (pc' = "return" /\ run' = run /\ YearsOf(runlog') = <<START_YEAR>>)
     /\ (pc = "after" /\ run \in 3..(NumRuns - 1)) =>
          (pc' = "loop" /\ run' = run + 1 /\ year' = START_YEAR /\ runlog' = <<>>)
     /\ (pc = "after" /\ run > 3) =>
          IF df.none THEN lac_data' = lac_data
          ELSE /\ Len(lac_data') = Len(lac_data) + 1
               /\ Len(lac_data'[Len(lac_data')]) = Len(df.rows)
     /\ pc = "lac_done" =>
          IF lac_data = <<>> THEN csv' = NoCsv
          ELSE /\ csv'.name = FILE_LAC
               /\ csv'.frame.rows = concat(lac_data)
     /\ OneFetchAfterLimit']_vars

\* The limit was reached in the first year of dataset 3; both partners were
\* fetched once after that, the last one returned rows, and the file of the
\* multi-partner dataset was written with them.
C15_Witness ==
  /\ pc = "end"
  /\ NearLimitNow
  /\ FetchesOf(3) = 1
  /\ \A k \in 4..NumRuns : FetchesOf(k) = 1
  /\ csv.name = FILE_LAC
  /\ \E i \in DOMAIN csv.frame.rows :
       csv.frame.rows[i].partner_country = LAC_PARTNERS[MaxPartners]

(* ---------------- C11 ---------------- *)

\* C11: download_year gives up on no throttled request: it returns only once
\* the server has answered the request, or a retry of it, with something else
\* than HTTP 429; when it has just returned, the last answer was not a 429.
C11_ThrottledNeverGivenUp == pc = "pace" => ~wire.throttled

(* ---------------- C12 ---------------- *)

\* C12: the step after an HTTP 429 is the cooldown sleep, and the step after
\* the sleep is a request of a call with the same arguments; the request that
\* follows a 429 on the wire has the params of the throttled one; from the
\* 429 to that request the run, the year and the accumulator stay as they are.
C12_SameRequestRetried ==
  [][/\ pc = "cooldown" =>
          /\ wire.throttled
          /\ sleeps'.cooldown = sleeps.cooldown + 1
          /\ pc' = "get"
          /\ nested'[Len(nested')] = nested[Len(nested)]
          /\ UNCHANGED <<run, year, all_data, lac_data, issued>>
     /\ (wire.throttled /\ attempted' # attempted) =>
          /\ wire'.params = wire.params
          /\ wire'.slept.cooldown = wire.slept.cooldown + 1
          /\ \/ UNCHANGED <<run, year, all_data>>
             \/ /\ UNCHANGED <<run, year>>
                /\ all_data' = Append(all_data, Payload(wire.params))]_vars

\* What C12 says, for the retries in which requests.get has the stack it needs.
C12_BelowRecursionLimit ==
  [][/\ pc = "cooldown" =>
          /\ wire.throttled
          /\ sleeps'.cooldown = sleeps.cooldown + 1
          /\ pc' = "get"
          /\ nested'[Len(nested')] = nested[Len(nested)]
          /\ UNCHANGED <<run, year, all_data, lac_data, issued>>
     /\ (pc = "get" /\ Len(nested) > 1 /\ Len(nested) <= RecursionLimit) =>
          /\ wire.throttled
          /\ attempted' = attempted + 1
          /\ wire'.params = wire.params
          /\ wire'.slept.cooldown = wire.slept.cooldown + 1
          /\ \/ UNCHANGED <<run, year, all_data>>
             \/ /\ UNCHANGED <<run, year>>
                /\ all_data' = Append(all_data, Payload(wire.params))]_vars

(* ---------------- C13 ---------------- *)

SleepCount(s) == s.cooldown + s.pacing + s.partner

\* C13: when download_year returns, with rows or without, the next step is
\* the pacing sleep and the one after it the near-limit test, which is made
\* nowhere else in download_dataset; at the test every year fetched so far has
\* had its pacing sleep; and no call of requests.get but the first of the
\* campaign is made without a sleep since the call before it.
C13_SleepBetweenAttempts ==
  [][/\ attempted' # attempted =>
          (attempted = 0 \/ SleepCount(sleeps) > SleepCount(wire.slept))
     /\ Len(runlog') > Len(runlog) => pc' = "pace"
     /\ pc = "pace" =>
          /\ sleeps' = [sleeps EXCEPT !.pacing = @ + 1]
          /\ pc' = "check"
          /\ UNCHANGED <<attempted, checked>>
     /\ pc = "check" =>
          /\ sleeps.pacing = Len(issued)
          /\ checked'.site = "download_dataset"
          /\ sleeps' = sleeps
     /\ (checked' # checked /\ checked'.site = "download_dataset") => pc = "check"
     /\ (pc' = "get" /\ pc # "get") =>
          (attempted = 0 \/ SleepCount(sleeps') > SleepCount(wire.slept))]_vars

\* The second partner's first request was made after sleeps of the three
\* kinds, it brought no rows, and its pacing sleep has been taken.
C13_Witness ==
  /\ pc = "check"
  /\ run = 5
  /\ wire.params = Params(RunArgs(5), START_YEAR)
  /\ wire.slept.cooldown >= 1
  /\ wire.slept.partner >= 1
  /\ wire.slept.pacing >= 1
  /\ ~runlog[Len(runlog)].rows
  /\ sleeps.pacing = wire.slept.pacing + 1

(* ---------------- C16 ---------------- *)

\* C16: from every state that either entry point reaches, and for every
\* answer of the server, a step of 04_download_comtrade.py is a step of
\* 05_download_comtrade.py and the other way round: the same request issued,
\* the same sleeps taken, the same value of the call counter, the same file
\* written with the same rows in the same order, the same early exit.
C16_SameOrchestration == [][Next <=> Next_05]_vars

\* A campaign went through throttling and all partners to its end and wrote
\* the multi-partner file.
C16_Witness ==
  /\ pc = "end"
  /\ csv.name = FILE_LAC_05
  /\ csv.name = FILE_LAC
  /\ sleeps.cooldown >= 1
  /\ sleeps.partner = MaxPartners
  /\ Len(issued) = NumRuns * MaxYears
  /\ call_counter >= Len(issued)

\* A campaign left through sys.exit(0) after the second dataset, at the
\* threshold itself.
C16_WitnessExit ==
  /\ pc = "exit0"
  /\ call_counter = max_calls_05 - RESERVE_05
  /\ csv.name = FILE_2_05

====
